---- MODULE Spec2Model ----
(***************************************************************************)
(* Model of measure_jitter.py: a UDP round-trip latency/jitter probe.      *)
(* The script is a straight-line program; pc names the statement that runs *)
(* next.  The peer, the network and the monotonic clock are the            *)
(* environment.  Unsigned 64-bit values are kept as four 16-bit limbs,     *)
(* least significant first, so that no arithmetic leaves TLC's integers.   *)
(***************************************************************************)
EXTENDS Integers, Sequences, FiniteSets, TLC

\* ---------------------------------------------------------------- bounds
\* Largest configured COUNT explored (the source fixes COUNT = 10000).
MaxCount == 2
\* How many times the network may deliver a copy of a datagram.
MaxDup == 1
\* Clock resolution: ticks of the monotonic clock per second.
TicksPerSec == 1

\* ------------------------------------------------------ program constants
\* sock.settimeout(1.0): seconds
TIMEOUT == 1
\* (t1 - t0) * 1_000_000: microseconds per second
MICROS == 1000000

VARIABLES
  pc,             \* statement about to run
  COUNT,          \* module constant COUNT (configuration input)
  latencies,      \* array('d'), index 0..COUNT-1
  hw_timestamps,  \* array('Q'), index 0..COUNT-1
  sock,           \* "none" | "open" | "connected"
  timeoutSet,     \* settimeout(1.0) has run
  gcEnabled,      \* automatic collection enabled
  gcCollected,    \* a full gc.collect() pass has run
  i,              \* loop variable; -1 while unbound
  t0, t1,         \* clock readings
  data,           \* bytes returned by recv(8)
  stats,          \* min_lat, max_lat, avg_lat, stdev, jitter_pico once computed
  report,         \* printed result block, <<>> until printed
  failure,        \* exception that is propagating / ended the run
  clock,          \* monotonic clock, in ticks
  recvStart,      \* clock value when the current recv began blocking
  peerUp,         \* a peer is bound to (HOST, PORT) for the whole run
  reqs,           \* requests in flight to the peer (index of the request)
  rxbuf,          \* datagrams queued on the socket: [req, val, shape, bytes,
                  \* at], at = clock value when the peer's answer arrived
  pendingErr,     \* ICMP port-unreachable recorded on the socket
  dups,           \* copies the network has made
  sent,           \* history: number of requests sent
  windows,        \* history: number of t0 captures
  rxlog,          \* history: datagram returned by each recv, with the clock
                  \* at the send before it (sentAt) and at its return (gotAt)
  peerLog,        \* history: what the peer answered, in order
  hwSrc,          \* history: index -> request whose response was stored there
  latWritten,     \* history: indices of latencies written by the loop
  attempted       \* history: statistics attempted by the aggregator

vars == <<pc, COUNT, latencies, hw_timestamps, sock, timeoutSet, gcEnabled,
          gcCollected, i, t0, t1, data, stats, report, failure, clock,
          recvStart, peerUp, reqs, rxbuf, pendingErr, dups, sent, windows,
          rxlog, peerLog, hwSrc, latWritten, attempted>>

progVars == <<COUNT, latencies, hw_timestamps, sock, timeoutSet, gcEnabled,
              gcCollected, i, t0, t1, data, stats, report, failure>>
envVars == <<clock, recvStart, peerUp, reqs, rxbuf, pendingErr, dups>>
histVars == <<sent, windows, rxlog, peerLog, hwSrc, latWritten, attempted>>

\* ------------------------------------------------------------ pure helpers
U64Zero == <<0, 0, 0, 0>>

\* Values the peer may echo: 201, 0x0102030405060708, 2^64 - 1.
PeerValues == { <<201, 0, 0, 0>>, <<1800, 1286, 772, 258>>,
                <<65535, 65535, 65535, 65535>> }

\* Shapes of a response payload: the 8-byte encoding, or a malformed one.
Shapes == {"exact", "short", "empty", "long"}

\* struct.pack('<Q', v): 8 bytes, least significant first.
Pack(v) == [j \in 1..8 |->
              IF j % 2 = 1 THEN v[(j + 1) \div 2] % 256
                           ELSE v[j \div 2] \div 256]

\* Mutant: decode as big-endian ('>Q').
Unpack_BigEndian(b) == [j \in 1..4 |-> b[10 - 2 * j] + 256 * b[9 - 2 * j]]

\* struct.unpack('<Q', b)[0] for an 8-byte b.
Unpack(b) == [j \in 1..4 |-> b[2 * j - 1] + 256 * b[2 * j]]

\* What sock.recv(8) returns for a datagram: at most its first 8 bytes.
Recv8(bytes) == SubSeq(bytes, 1, IF Len(bytes) < 8 THEN Len(bytes) ELSE 8)

\* The payload the peer puts on the wire for value v in a given shape.
Payload(v, shape) ==
  CASE shape = "exact" -> Pack(v)
    [] shape = "short" -> SubSeq(Pack(v), 1, 7)
    [] shape = "empty" -> <<>>
    [] shape = "long"  -> Pack(v) \o <<0>>

\* What the peer may answer: a value in a shape (an empty payload carries
\* no value).
Responses == {<<v, shape>> : v \in PeerValues, shape \in Shapes \ {"empty"}}
             \cup {<<U64Zero, "empty">>}

\* (t1 - t0) * 1_000_000 with t in seconds and the clock in ticks.
Elapsed(a, b) == ((b - a) * MICROS) \div TicksPerSec

RECURSIVE MinFrom(_, _, _)
\* min(arr[k..n-1] + [best])
MinFrom(arr, k, best) ==
  IF k \notin DOMAIN arr THEN best
  ELSE MinFrom(arr, k + 1, IF arr[k] < best THEN arr[k] ELSE best)

RECURSIVE MaxFrom(_, _, _)
MaxFrom(arr, k, best) ==
  IF k \notin DOMAIN arr THEN best
  ELSE MaxFrom(arr, k + 1, IF arr[k] > best THEN arr[k] ELSE best)

RECURSIVE SumFrom(_, _)
SumFrom(arr, k) ==
  IF k \notin DOMAIN arr THEN 0 ELSE arr[k] + SumFrom(arr, k + 1)

\* builtin min / max over a non-empty array
PyMin(arr) == MinFrom(arr, 1, arr[0])
PyMax(arr) == MaxFrom(arr, 1, arr[0])
\* statistics.mean as the exact fraction sum / n
PyMean(arr) == [num |-> SumFrom(arr, 0), den |-> Cardinality(DOMAIN arr)]
\* statistics.stdev, kept symbolic: the sample deviation of these n values
PyStdev(arr) == [n |-> Cardinality(DOMAIN arr), of |-> arr]

NoStats == [min_lat |-> -1, max_lat |-> -1, avg_lat |-> <<>>, stdev |-> <<>>,
            jitter_pico |-> -1]

\* ------------------------------------------------------------------- Init
Init ==
  /\ pc = "alloc"
  /\ COUNT \in 0..MaxCount
  /\ latencies = <<>>
  /\ hw_timestamps = <<>>
  /\ sock = "none"
  /\ timeoutSet = FALSE
  /\ gcEnabled = TRUE
  /\ gcCollected = FALSE
  /\ i = -1
  /\ t0 = 0
  /\ t1 = 0
  /\ data = <<>>
  /\ stats = NoStats
  /\ report = <<>>
  /\ failure = "none"
  /\ clock = 0
  /\ recvStart = 0
  /\ peerUp \in BOOLEAN
  /\ reqs = {}
  /\ rxbuf = <<>>
  /\ pendingErr = FALSE
  /\ dups = 0
  /\ sent = 0
  /\ windows = 0
  /\ rxlog = <<>>
  /\ peerLog = <<>>
  /\ hwSrc = <<>>
  /\ latWritten = {}
  /\ attempted = {}

\* ------------------------------------------------------- program: set-up
\* An exception inside the try block: control moves to the finally clause.
RaiseInTry(exc) == /\ failure' = exc
                   /\ pc' = "finally"

\* Lines 12-13: both arrays allocated with COUNT zeros.
AllocArrays ==
  /\ pc = "alloc"
  /\ latencies' = [k \in 0..(COUNT - 1) |-> 0]
  /\ hw_timestamps' = [k \in 0..(COUNT - 1) |-> U64Zero]
  /\ hwSrc' = [k \in 0..(COUNT - 1) |-> -1]
  /\ pc' = "socket"
  /\ UNCHANGED <<COUNT, sock, timeoutSet, gcEnabled, gcCollected, i, t0, t1,
                 data, stats, report, failure>>
  /\ UNCHANGED envVars
  /\ UNCHANGED <<sent, windows, rxlog, peerLog, latWritten, attempted>>

\* Line 15: socket.socket(AF_INET, SOCK_DGRAM).
SocketCreate ==
  /\ pc = "socket"
  /\ sock' = "open"
  /\ pc' = "connect"
  /\ UNCHANGED <<COUNT, latencies, hw_timestamps, timeoutSet, gcEnabled,
                 gcCollected, i, t0, t1, data, stats, report, failure>>
  /\ UNCHANGED envVars
  /\ UNCHANGED histVars

\* Line 16: connect() on a datagram socket only records the remote address;
\* it succeeds whether or not a peer is bound to the port.
SockConnect ==
  /\ pc = "connect"
  /\ sock' = "connected"
  /\ pc' = "settimeout"
  /\ UNCHANGED <<COUNT, latencies, hw_timestamps, timeoutSet, gcEnabled,
                 gcCollected, i, t0, t1, data, stats, report, failure>>
  /\ UNCHANGED envVars
  /\ UNCHANGED histVars

\* Line 16: connect() raises OSError (no route to the address); the script
\* ends with the unhandled exception.
SockConnectFail ==
  /\ pc = "connect"
  /\ failure' = "OSError"
  /\ pc' = "aborted"
  /\ UNCHANGED <<COUNT, latencies, hw_timestamps, sock, timeoutSet, gcEnabled,
                 gcCollected, i, t0, t1, data, stats, report>>
  /\ UNCHANGED envVars
  /\ UNCHANGED histVars

\* Lines 17-24: settimeout(1.0), the local aliases and the banner.
SockSetTimeout ==
  /\ pc = "settimeout"
  /\ timeoutSet' = TRUE
  /\ pc' = "gc_collect"
  /\ UNCHANGED <<COUNT, latencies, hw_timestamps, sock, gcEnabled,
                 gcCollected, i, t0, t1, data, stats, report, failure>>
  /\ UNCHANGED envVars
  /\ UNCHANGED histVars

\* Line 26: gc.collect().
GcCollect ==
  /\ pc = "gc_collect"
  /\ gcCollected' = TRUE
  /\ pc' = "gc_disable"
  /\ UNCHANGED <<COUNT, latencies, hw_timestamps, sock, timeoutSet, gcEnabled,
                 i, t0, t1, data, stats, report, failure>>
  /\ UNCHANGED envVars
  /\ UNCHANGED histVars

\* Mutant: gc.disable() is left out.
GcDisable_Skipped ==
  /\ pc = "gc_disable"
  /\ gcEnabled' = gcEnabled
  /\ pc' = "for"
  /\ UNCHANGED <<COUNT, latencies, hw_timestamps, sock, timeoutSet,
                 gcCollected, i, t0, t1, data, stats, report, failure>>
  /\ UNCHANGED envVars
  /\ UNCHANGED histVars

\* Line 27: gc.disable(); the try block is entered.
GcDisable ==
  /\ pc = "gc_disable"
  /\ gcEnabled' = FALSE
  /\ pc' = "for"
  /\ UNCHANGED <<COUNT, latencies, hw_timestamps, sock, timeoutSet,
                 gcCollected, i, t0, t1, data, stats, report, failure>>
  /\ UNCHANGED envVars
  /\ UNCHANGED histVars

\* Mutant: the loop stops one iteration early (range(COUNT - 1)).
ForNext_OneShort ==
  /\ pc = "for"
  /\ IF i + 1 < COUNT - 1
       THEN /\ i' = i + 1
            /\ pc' = "t0"
       ELSE /\ i' = i
            /\ pc' = "finally"
  /\ UNCHANGED <<COUNT, latencies, hw_timestamps, sock, timeoutSet, gcEnabled,
                 gcCollected, t0, t1, data, stats, report, failure>>
  /\ UNCHANGED envVars
  /\ UNCHANGED histVars

\* ---------------------------------------------------- program: the loop
\* Line 30: for i in range(COUNT): next index, or leave the loop.
ForNext ==
  /\ pc = "for"
  /\ IF i + 1 < COUNT
       THEN /\ i' = i + 1
            /\ pc' = "t0"
       ELSE /\ i' = i
            /\ pc' = "finally"
  /\ UNCHANGED <<COUNT, latencies, hw_timestamps, sock, timeoutSet, gcEnabled,
                 gcCollected, t0, t1, data, stats, report, failure>>
  /\ UNCHANGED envVars
  /\ UNCHANGED histVars

\* Line 31: t0 = get_time().
GetT0 ==
  /\ pc = "t0"
  /\ t0' = clock
  /\ windows' = windows + 1
  /\ pc' = "send"
  /\ UNCHANGED <<COUNT, latencies, hw_timestamps, sock, timeoutSet, gcEnabled,
                 gcCollected, i, t1, data, stats, report, failure>>
  /\ UNCHANGED envVars
  /\ UNCHANGED <<sent, rxlog, peerLog, hwSrc, latWritten, attempted>>

\* Mutant: the request carries two bytes (b'TS').
Send_TwoBytes ==
  /\ pc = "send"
  /\ reqs' = reqs \cup {[idx |-> i, bytes |-> <<84, 83>>]}
  /\ sent' = sent + 1
  /\ recvStart' = clock
  /\ pc' = "recv"
  /\ UNCHANGED progVars
  /\ UNCHANGED <<clock, peerUp, rxbuf, pendingErr, dups>>
  /\ UNCHANGED <<windows, rxlog, peerLog, hwSrc, latWritten, attempted>>

\* Line 33: send(b'T') puts one request datagram on the wire.
Send ==
  /\ pc = "send"
  /\ reqs' = reqs \cup {[idx |-> i, bytes |-> <<84>>]}
  /\ sent' = sent + 1
  /\ recvStart' = clock
  /\ pc' = "recv"
  /\ UNCHANGED progVars
  /\ UNCHANGED <<clock, peerUp, rxbuf, pendingErr, dups>>
  /\ UNCHANGED <<windows, rxlog, peerLog, hwSrc, latWritten, attempted>>

\* Line 33: send raises OSError (the kernel refuses the datagram: network
\* down, no buffer space, ...); nothing is sent.
SendError ==
  /\ pc = "send"
  /\ RaiseInTry("OSError")
  /\ UNCHANGED <<COUNT, latencies, hw_timestamps, sock, timeoutSet, gcEnabled,
                 gcCollected, i, t0, t1, data, stats, report>>
  /\ UNCHANGED envVars
  /\ UNCHANGED histVars

\* Line 34: recv(8) returns the first queued datagram, cut to 8 bytes
\* (a longer datagram is truncated silently).
Recv ==
  /\ pc = "recv"
  /\ ~pendingErr
  /\ rxbuf # <<>>
  /\ data' = Recv8(Head(rxbuf).bytes)
  /\ rxbuf' = Tail(rxbuf)
  /\ rxlog' = Append(rxlog, Head(rxbuf) @@
                              [sentAt |-> recvStart, gotAt |-> clock])
  /\ pc' = "t1"
  /\ UNCHANGED <<COUNT, latencies, hw_timestamps, sock, timeoutSet, gcEnabled,
                 gcCollected, i, t0, t1, stats, report, failure>>
  /\ UNCHANGED <<clock, recvStart, peerUp, reqs, pendingErr, dups>>
  /\ UNCHANGED <<sent, windows, peerLog, hwSrc, latWritten, attempted>>

\* Line 34: on platforms that report truncation, recv(8) of a datagram longer
\* than 8 bytes raises OSError (message too long); the datagram is dropped.
RecvTooLong ==
  /\ pc = "recv"
  /\ ~pendingErr
  /\ rxbuf # <<>>
  /\ Len(Head(rxbuf).bytes) > 8
  /\ rxbuf' = Tail(rxbuf)
  /\ RaiseInTry("OSError")
  /\ UNCHANGED <<COUNT, latencies, hw_timestamps, sock, timeoutSet, gcEnabled,
                 gcCollected, i, t0, t1, data, stats, report>>
  /\ UNCHANGED <<clock, recvStart, peerUp, reqs, pendingErr, dups>>
  /\ UNCHANGED histVars

\* Mutant: the timeout is swallowed and the loop goes on (except: continue).
RecvTimeout_Continue ==
  /\ pc = "recv"
  /\ ~pendingErr
  /\ rxbuf = <<>>
  /\ clock - recvStart >= TIMEOUT * TicksPerSec
  /\ pc' = "for"
  /\ UNCHANGED progVars
  /\ UNCHANGED envVars
  /\ UNCHANGED histVars

\* Mutant: the socket has no timeout; an unanswered recv blocks for ever.
RecvTimeout_Blocking ==
  /\ pc = "recv"
  /\ ~pendingErr
  /\ rxbuf = <<>>
  /\ ~timeoutSet
  /\ clock - recvStart >= TIMEOUT * TicksPerSec
  /\ RaiseInTry("TimeoutError")
  /\ UNCHANGED <<COUNT, latencies, hw_timestamps, sock, timeoutSet, gcEnabled,
                 gcCollected, i, t0, t1, data, stats, report>>
  /\ UNCHANGED envVars
  /\ UNCHANGED histVars

\* Line 34: nothing arrived within the timeout: recv raises TimeoutError.
RecvTimeout ==
  /\ pc = "recv"
  /\ ~pendingErr
  /\ rxbuf = <<>>
  /\ timeoutSet
  /\ clock - recvStart >= TIMEOUT * TicksPerSec
  /\ RaiseInTry("TimeoutError")
  /\ UNCHANGED <<COUNT, latencies, hw_timestamps, sock, timeoutSet, gcEnabled,
                 gcCollected, i, t0, t1, data, stats, report>>
  /\ UNCHANGED envVars
  /\ UNCHANGED histVars

\* Line 34: recv raises the error recorded on the socket
\* (ConnectionRefusedError after an ICMP port-unreachable).
RecvError ==
  /\ pc = "recv"
  /\ pendingErr
  /\ pendingErr' = FALSE
  /\ RaiseInTry("OSError")
  /\ UNCHANGED <<COUNT, latencies, hw_timestamps, sock, timeoutSet, gcEnabled,
                 gcCollected, i, t0, t1, data, stats, report>>
  /\ UNCHANGED <<clock, recvStart, peerUp, reqs, rxbuf, dups>>
  /\ UNCHANGED histVars

\* Line 36: t1 = get_time().
GetT1 ==
  /\ pc = "t1"
  /\ t1' = clock
  /\ pc' = "store_lat"
  /\ UNCHANGED <<COUNT, latencies, hw_timestamps, sock, timeoutSet, gcEnabled,
                 gcCollected, i, t0, data, stats, report, failure>>
  /\ UNCHANGED envVars
  /\ UNCHANGED histVars

\* Mutant: the difference is taken the wrong way round (t0 - t1).
StoreLatency_Swapped ==
  /\ pc = "store_lat"
  /\ latencies' = [latencies EXCEPT ![i] = Elapsed(t1, t0)]
  /\ latWritten' = latWritten \cup {i}
  /\ pc' = "store_hw"
  /\ UNCHANGED <<COUNT, hw_timestamps, sock, timeoutSet, gcEnabled,
                 gcCollected, i, t0, t1, data, stats, report, failure>>
  /\ UNCHANGED envVars
  /\ UNCHANGED <<sent, windows, rxlog, peerLog, hwSrc, attempted>>

\* Mutant: every latency is written to index 0.
StoreLatency_Index0 ==
  /\ pc = "store_lat"
  /\ latencies' = [latencies EXCEPT ![0] = Elapsed(t0, t1)]
  /\ latWritten' = latWritten \cup {i}
  /\ pc' = "store_hw"
  /\ UNCHANGED <<COUNT, hw_timestamps, sock, timeoutSet, gcEnabled,
                 gcCollected, i, t0, t1, data, stats, report, failure>>
  /\ UNCHANGED envVars
  /\ UNCHANGED <<sent, windows, rxlog, peerLog, hwSrc, attempted>>

\* Line 38: latencies[i] = (t1 - t0) * 1_000_000.
StoreLatency ==
  /\ pc = "store_lat"
  /\ latencies' = [latencies EXCEPT ![i] = Elapsed(t0, t1)]
  /\ latWritten' = latWritten \cup {i}
  /\ pc' = "store_hw"
  /\ UNCHANGED <<COUNT, hw_timestamps, sock, timeoutSet, gcEnabled,
                 gcCollected, i, t0, t1, data, stats, report, failure>>
  /\ UNCHANGED envVars
  /\ UNCHANGED <<sent, windows, rxlog, peerLog, hwSrc, attempted>>

\* Mutant: the value is stored from the far end of the array.
StoreHw_Reversed ==
  /\ pc = "store_hw"
  /\ IF Len(data) = 8
       THEN /\ hw_timestamps' =
                 [hw_timestamps EXCEPT ![COUNT - 1 - i] = Unpack(data)]
            /\ hwSrc' = [hwSrc EXCEPT ![COUNT - 1 - i] = rxlog[Len(rxlog)].req]
            /\ pc' = "for"
            /\ UNCHANGED failure
       ELSE /\ RaiseInTry("struct.error")
            /\ UNCHANGED <<hw_timestamps, hwSrc>>
  /\ UNCHANGED <<COUNT, latencies, sock, timeoutSet, gcEnabled, gcCollected,
                 i, t0, t1, data, stats, report>>
  /\ UNCHANGED envVars
  /\ UNCHANGED <<sent, windows, rxlog, peerLog, latWritten, attempted>>

\* Line 40: hw_timestamps[i] = unpack('<Q', data)[0]; unpack raises
\* struct.error unless data is exactly 8 bytes long.
StoreHw ==
  /\ pc = "store_hw"
  /\ IF Len(data) = 8
       THEN /\ hw_timestamps' = [hw_timestamps EXCEPT ![i] = Unpack(data)]
            /\ hwSrc' = [hwSrc EXCEPT ![i] = rxlog[Len(rxlog)].req]
            /\ pc' = "for"
            /\ UNCHANGED failure
       ELSE /\ RaiseInTry("struct.error")
            /\ UNCHANGED <<hw_timestamps, hwSrc>>
  /\ UNCHANGED <<COUNT, latencies, sock, timeoutSet, gcEnabled, gcCollected,
                 i, t0, t1, data, stats, report>>
  /\ UNCHANGED envVars
  /\ UNCHANGED <<sent, windows, rxlog, peerLog, latWritten, attempted>>

\* Mutant: gc.enable() placed after the loop without try/finally.
Finally_OnlyOnSuccess ==
  /\ pc = "finally"
  /\ gcEnabled' = (failure = "none")
  /\ pc' = IF failure = "none" THEN "min" ELSE "aborted"
  /\ UNCHANGED <<COUNT, latencies, hw_timestamps, sock, timeoutSet,
                 gcCollected, i, t0, t1, data, stats, report, failure>>
  /\ UNCHANGED envVars
  /\ UNCHANGED histVars

\* Mutant: the exception is swallowed and the script carries on.
Finally_Swallow ==
  /\ pc = "finally"
  /\ gcEnabled' = TRUE
  /\ pc' = "min"
  /\ UNCHANGED <<COUNT, latencies, hw_timestamps, sock, timeoutSet,
                 gcCollected, i, t0, t1, data, stats, report, failure>>
  /\ UNCHANGED envVars
  /\ UNCHANGED histVars

\* Lines 42-43: finally: gc.enable(); a propagating exception then ends the
\* script, otherwise line 45 follows.
Finally ==
  /\ pc = "finally"
  /\ gcEnabled' = TRUE
  /\ pc' = IF failure = "none" THEN "min" ELSE "aborted"
  /\ UNCHANGED <<COUNT, latencies, hw_timestamps, sock, timeoutSet,
                 gcCollected, i, t0, t1, data, stats, report, failure>>
  /\ UNCHANGED envVars
  /\ UNCHANGED histVars

\* ------------------------------------------------- program: aggregation
\* An exception outside the try block ends the script.
RaiseTop(exc) == /\ failure' = exc
                 /\ pc' = "aborted"

\* Mutant: the first sample is left out of the minimum.
MinLat_SkipFirst ==
  /\ pc = "min"
  /\ attempted' = attempted \cup {"min"}
  /\ IF COUNT = 0
       THEN /\ RaiseTop("ValueError")
            /\ UNCHANGED stats
       ELSE /\ stats' = [stats EXCEPT !.min_lat =
                           MinFrom(latencies, 2, latencies[COUNT - 1])]
            /\ pc' = "max"
            /\ UNCHANGED failure
  /\ UNCHANGED <<COUNT, latencies, hw_timestamps, sock, timeoutSet, gcEnabled,
                 gcCollected, i, t0, t1, data, report>>
  /\ UNCHANGED envVars
  /\ UNCHANGED <<sent, windows, rxlog, peerLog, hwSrc, latWritten>>

\* Line 45: min_lat = min(latencies); ValueError on an empty array.
MinLat ==
  /\ pc = "min"
  /\ attempted' = attempted \cup {"min"}
  /\ IF COUNT = 0
       THEN /\ RaiseTop("ValueError")
            /\ UNCHANGED stats
       ELSE /\ stats' = [stats EXCEPT !.min_lat = PyMin(latencies)]
            /\ pc' = "max"
            /\ UNCHANGED failure
  /\ UNCHANGED <<COUNT, latencies, hw_timestamps, sock, timeoutSet, gcEnabled,
                 gcCollected, i, t0, t1, data, report>>
  /\ UNCHANGED envVars
  /\ UNCHANGED <<sent, windows, rxlog, peerLog, hwSrc, latWritten>>

\* Line 46: max_lat = max(latencies) (the array is non-empty here).
MaxLat ==
  /\ pc = "max"
  /\ attempted' = attempted \cup {"max"}
  /\ stats' = [stats EXCEPT !.max_lat = PyMax(latencies)]
  /\ pc' = "mean"
  /\ UNCHANGED <<COUNT, latencies, hw_timestamps, sock, timeoutSet, gcEnabled,
                 gcCollected, i, t0, t1, data, report, failure>>
  /\ UNCHANGED envVars
  /\ UNCHANGED <<sent, windows, rxlog, peerLog, hwSrc, latWritten>>

\* Line 47: avg_lat = statistics.mean(latencies).
MeanLat ==
  /\ pc = "mean"
  /\ attempted' = attempted \cup {"mean"}
  /\ stats' = [stats EXCEPT !.avg_lat = PyMean(latencies)]
  /\ pc' = "stdev"
  /\ UNCHANGED <<COUNT, latencies, hw_timestamps, sock, timeoutSet, gcEnabled,
                 gcCollected, i, t0, t1, data, report, failure>>
  /\ UNCHANGED envVars
  /\ UNCHANGED <<sent, windows, rxlog, peerLog, hwSrc, latWritten>>

\* Line 48: stdev = statistics.stdev(latencies); StatisticsError when there
\* are fewer than two values.
Stdev ==
  /\ pc = "stdev"
  /\ attempted' = attempted \cup {"stdev"}
  /\ IF COUNT < 2
       THEN /\ RaiseTop("StatisticsError")
            /\ UNCHANGED stats
       ELSE /\ stats' = [stats EXCEPT !.stdev = PyStdev(latencies)]
            /\ pc' = "jitter"
            /\ UNCHANGED failure
  /\ UNCHANGED <<COUNT, latencies, hw_timestamps, sock, timeoutSet, gcEnabled,
                 gcCollected, i, t0, t1, data, report>>
  /\ UNCHANGED envVars
  /\ UNCHANGED <<sent, windows, rxlog, peerLog, hwSrc, latWritten>>

\* Line 49: jitter_pico = max_lat - min_lat.
Jitter ==
  /\ pc = "jitter"
  /\ stats' = [stats EXCEPT !.jitter_pico = stats.max_lat - stats.min_lat]
  /\ pc' = "print"
  /\ UNCHANGED <<COUNT, latencies, hw_timestamps, sock, timeoutSet, gcEnabled,
                 gcCollected, i, t0, t1, data, report, failure>>
  /\ UNCHANGED envVars
  /\ UNCHANGED histVars

\* Mutant: the first stored timestamp is printed instead of the last.
Report_FirstHw ==
  /\ pc = "print"
  /\ report' = <<[packets |-> COUNT,
                  min_lat |-> stats.min_lat,
                  avg_lat |-> stats.avg_lat,
                  max_lat |-> stats.max_lat,
                  stdev   |-> stats.stdev,
                  jitter  |-> stats.jitter_pico,
                  last_hw |-> hw_timestamps[0]]>>
  /\ pc' = "done"
  /\ UNCHANGED <<COUNT, latencies, hw_timestamps, sock, timeoutSet, gcEnabled,
                 gcCollected, i, t0, t1, data, stats, failure>>
  /\ UNCHANGED envVars
  /\ UNCHANGED histVars

\* Lines 51-62: the result block, as the values it prints (text layout and
\* rounding to two decimals left out).
Report ==
  /\ pc = "print"
  /\ report' = <<[packets |-> COUNT,
                  min_lat |-> stats.min_lat,
                  avg_lat |-> stats.avg_lat,
                  max_lat |-> stats.max_lat,
                  stdev   |-> stats.stdev,
                  jitter  |-> stats.jitter_pico,
                  last_hw |-> hw_timestamps[COUNT - 1]]>>
  /\ pc' = "done"
  /\ UNCHANGED <<COUNT, latencies, hw_timestamps, sock, timeoutSet, gcEnabled,
                 gcCollected, i, t0, t1, data, stats, failure>>
  /\ UNCHANGED envVars
  /\ UNCHANGED histVars

\* ------------------------------------------------------------ environment
\* The loop is running: the socket is in use.  Datagrams that arrive once
\* the loop has ended are never read and are left out.
Running == pc \in {"for", "t0", "send", "recv", "t1", "store_lat", "store_hw"}

\* The monotonic clock advances while recv blocks on an empty socket, up to
\* the timeout set on line 17.
Tick ==
  /\ pc = "recv"
  /\ ~pendingErr
  /\ rxbuf = <<>>
  /\ clock - recvStart < TIMEOUT * TicksPerSec
  /\ clock' = clock + 1
  /\ UNCHANGED pc
  /\ UNCHANGED progVars
  /\ UNCHANGED <<recvStart, peerUp, reqs, rxbuf, pendingErr, dups>>
  /\ UNCHANGED histVars

\* The peer answers one request with a payload of its choosing.
PeerRespond ==
  /\ Running
  /\ peerUp
  /\ \E r \in reqs, a \in Responses :
       LET d == [req |-> r.idx, val |-> a[1], shape |-> a[2],
                 bytes |-> Payload(a[1], a[2]), at |-> clock]
       IN /\ reqs' = reqs \ {r}
          /\ rxbuf' = Append(rxbuf, d)
          /\ peerLog' = Append(peerLog, d)
  /\ UNCHANGED pc
  /\ UNCHANGED progVars
  /\ UNCHANGED <<clock, recvStart, peerUp, pendingErr, dups>>
  /\ UNCHANGED <<sent, windows, rxlog, hwSrc, latWritten, attempted>>

\* No peer on the port: the request is answered by an ICMP port-unreachable,
\* which the kernel records as an error on the connected socket.
IcmpUnreachable ==
  /\ Running
  /\ ~peerUp
  /\ \E r \in reqs : reqs' = reqs \ {r}
  /\ pendingErr' = TRUE
  /\ UNCHANGED pc
  /\ UNCHANGED progVars
  /\ UNCHANGED <<clock, recvStart, peerUp, rxbuf, dups>>
  /\ UNCHANGED histVars

\* The network delivers a datagram a second time.
NetDuplicate ==
  /\ Running
  /\ dups < MaxDup
  /\ \E k \in 1..Len(rxbuf) : rxbuf' = Append(rxbuf, rxbuf[k])
  /\ dups' = dups + 1
  /\ UNCHANGED pc
  /\ UNCHANGED progVars
  /\ UNCHANGED <<clock, recvStart, peerUp, reqs, pendingErr>>
  /\ UNCHANGED histVars

\* ------------------------------------------------------------------- Next
Next ==
  \/ AllocArrays
  \/ SocketCreate
  \/ SockConnect
  \/ SockConnectFail
  \/ SockSetTimeout
  \/ GcCollect
  \/ GcDisable
  \/ ForNext
  \/ GetT0
  \/ Send
  \/ SendError
  \/ Recv
  \/ RecvTooLong
  \/ RecvTimeout
  \/ RecvError
  \/ GetT1
  \/ StoreLatency
  \/ StoreHw
  \/ Finally
  \/ MinLat
  \/ MaxLat
  \/ MeanLat
  \/ Stdev
  \/ Jitter
  \/ Report
  \/ Tick
  \/ PeerRespond
  \/ IcmpUnreachable
  \/ NetDuplicate

Spec == Init /\ [][Next]_vars

\* ----------------------------------------------------------------- claims
Terminal == pc \in {"done", "aborted"}
AfterLoop == pc \in {"min", "max", "mean", "stdev", "jitter", "print",
                     "done", "aborted"}
LoopFailures == {"TimeoutError", "OSError", "struct.error"}

\* C1: garbage collection is enabled again on every exit path of the loop
\* (normal completion, timeout, socket error, undecodable response): once
\* control is past the try/finally, and in every terminal state, automatic
\* collection is enabled.
C1_GcReenabledOnExit == AfterLoop => gcEnabled

\* C1 witness: the run aborted in iteration 1 on an undecodable response and
\* collection is enabled.
C1_Witness ==
  /\ pc = "aborted"
  /\ failure = "struct.error"
  /\ i = 1
  /\ gcEnabled

\* C2: once a receive has timed out or a send/receive has raised a socket
\* error in iteration k, no further request is sent (at most k+1 requests,
\* the failed one not repeated), no further receive returns, no statistic is
\* attempted and nothing is reported.
C2_AbortOnSocketFailure ==
  failure \in {"TimeoutError", "OSError"} =>
    /\ pc \in {"finally", "aborted"}
    /\ sent <= i + 1
    /\ Len(rxlog) <= i + 1
    /\ attempted = {}
    /\ stats = NoStats
    /\ report = <<>>

\* C2 witness: the receive of iteration 1 timed out after two requests and
\* the run has ended.
C2_Witness ==
  /\ pc = "aborted"
  /\ failure = "TimeoutError"
  /\ i = 1
  /\ sent = 2

\* C3 (as claimed): a response datagram whose payload is not exactly 8 bytes
\* long ends the run in its iteration with a failure other than a timeout,
\* and nothing decoded from it is stored in hw_timestamps.
C3_MalformedResponseFatal ==
  \A k \in 1..Len(rxlog) :
    Len(rxlog[k].bytes) # 8 =>
      /\ k = Len(rxlog)
      /\ i = k - 1
      /\ hwSrc[k - 1] = -1
      /\ pc \in {"t1", "store_lat", "store_hw", "finally", "aborted"}
      /\ pc \in {"finally", "aborted"} => failure \notin {"none", "TimeoutError"}

\* C4 (as claimed): every filled index i of hw_timestamps holds the value
\* decoded from the response to request i, whatever the network does.
C4_SampleIsResponseToRequest ==
  \A k \in DOMAIN hwSrc : hwSrc[k] # -1 => hwSrc[k] = k

\* C4 (amended): as long as the network has delivered no datagram twice,
\* every filled index i of hw_timestamps holds the value decoded from the
\* response to request i.
C4_SampleIsResponseUnlessDuplicated ==
  dups = 0 => \A k \in DOMAIN hwSrc : hwSrc[k] # -1 => hwSrc[k] = k

\* C4 witness: without duplication, index 1 was filled from the response to
\* request 1, which arrived after a delay.
C4_Witness ==
  /\ dups = 0
  /\ 1 \in DOMAIN hwSrc
  /\ hwSrc[1] = 1
  /\ latencies[1] > 0

\* C5 (as claimed): with COUNT < 2 no socket is created or connected and no
\* request is sent.
C5_InvalidCountBeforeSocket ==
  COUNT < 2 => (sock = "none" /\ sent = 0)

\* C6 (as claimed): with fewer than two latencies none of min, max, mean or
\* stdev is attempted.
C6_InsufficientSamplesFailFast ==
  COUNT < 2 => attempted = {}

\* The peer answered every request once, in order, with the exact 8-byte
\* little-endian encoding of a value, and the network duplicated nothing.
EchoingPeer ==
  /\ dups = 0
  /\ Len(peerLog) = COUNT
  /\ \A k \in 1..Len(peerLog) :
       /\ peerLog[k].req = k - 1
       /\ peerLog[k].bytes = Pack(peerLog[k].val)

\* C7: when the peer echoes v_0 .. v_(N-1) as 8-byte little-endian values,
\* one per request, then after the loop hw_timestamps is exactly
\* [v_0, ..., v_(N-1)].
C7_RoundTrip ==
  (AfterLoop /\ failure \notin LoopFailures /\ EchoingPeer) =>
    \A k \in 0..(COUNT - 1) : hw_timestamps[k] = peerLog[k + 1].val

\* C7 witness: a completed run of two exchanges whose echoed values differ
\* and are not byte-symmetric.
C7_Witness ==
  /\ pc = "done"
  /\ COUNT = 2
  /\ EchoingPeer
  /\ hw_timestamps[0] = <<1800, 1286, 772, 258>>
  /\ hw_timestamps[1] = <<201, 0, 0, 0>>

\* C8 (as claimed): when nothing listens on (HOST, PORT) no request is sent
\* and no timed window is opened.
C8_ConnectionFailureBeforeSampling ==
  ~peerUp => (sent = 0 /\ windows = 0)

\* C9: at most one request is outstanding (sent, its receive not yet
\* returned); a request is sent only when every earlier receive has returned
\* a datagram, and each iteration has exactly one receive, which follows its
\* send.
C9_NoPipelining ==
  /\ sent - Len(rxlog) \in {0, 1}
  /\ pc \in {"t0", "send"} => (sent = i /\ Len(rxlog) = i)
  /\ pc = "recv" => (sent = i + 1 /\ Len(rxlog) = i)
  /\ pc \in {"t1", "store_lat", "store_hw"} =>
       (sent = i + 1 /\ Len(rxlog) = i + 1)

\* C9 witness: the second request is about to be sent after the first
\* receive returned.
C9_Witness ==
  /\ pc = "send"
  /\ i = 1
  /\ sent = 1
  /\ Len(rxlog) = 1

\* C10: after a run that completed all N >= 2 exchanges the reported jitter
\* is the largest recorded latency minus the smallest, over all N latencies
\* the loop recorded.
C10_JitterIsRange ==
  pc = "done" =>
    /\ COUNT >= 2
    /\ latWritten = 0..(COUNT - 1)
    /\ \E a, b \in 0..(COUNT - 1) :
         /\ \A k \in 0..(COUNT - 1) :
              latencies[b] <= latencies[k] /\ latencies[k] <= latencies[a]
         /\ report[1].jitter = latencies[a] - latencies[b]

\* C10 witness: a completed run whose first latency is the smallest and whose
\* reported jitter is positive.
C10_Witness ==
  /\ pc = "done"
  /\ latencies[0] < latencies[1]
  /\ report[1].jitter > 0

\* ------------------------------------------------ process exit and fairness
\* What the interpreter prints for the unhandled exception that ended the
\* script: the exception type and the line that raised it.
Traceback ==
  [type |-> failure,
   line |-> CASE failure = "TimeoutError"    -> 34
              [] failure = "struct.error"    -> 40
              [] failure = "ValueError"      -> 45
              [] failure = "StatisticsError" -> 48
              [] failure = "OSError" ->
                   IF sock # "connected" THEN 16
                   ELSE IF sent = i THEN 33 ELSE 34
              [] OTHER -> 0]

\* Exit status of the process: 0 after the last print, 1 after an unhandled
\* exception, -1 while it runs.
ExitStatus ==
  CASE pc = "done" -> 0
    [] pc = "aborted" -> 1
    [] OTHER -> -1

\* The statements of the script.
Program ==
  \/ AllocArrays \/ SocketCreate \/ SockConnect \/ SockConnectFail
  \/ SockSetTimeout \/ GcCollect \/ GcDisable \/ ForNext \/ GetT0 \/ Send
  \/ SendError \/ Recv \/ RecvTooLong \/ RecvTimeout \/ RecvError \/ GetT1
  \/ StoreLatency \/ StoreHw \/ Finally \/ MinLat \/ MaxLat \/ MeanLat
  \/ Stdev \/ Jitter \/ Report

\* The interpreter keeps executing the script and the clock keeps running;
\* nothing is assumed of the peer or the network.
LiveSpec == Spec /\ WF_vars(Program) /\ WF_vars(Tick)

\* ------------------------------------------------------- claims, continued
InWindow == pc \in {"send", "recv", "t1"}
InAggregator == pc \in {"min", "max", "mean", "stdev", "jitter", "print", "done"}
HwWritten == {k \in DOMAIN hwSrc : hwSrc[k] # -1}
\* What exchange k (1-based entry of rxlog) contributes to the two arrays.
LatencyOf(e) == Elapsed(e.sentAt, e.gotAt)
HwOf(e) == Unpack(Recv8(e.bytes))

\* C11: after a run that completed all N exchanges the hardware timestamp
\* reported is the one stored at index N-1, decoded from the datagram the
\* last receive returned.
C11_LastHwReported ==
  pc = "done" =>
    /\ Len(rxlog) = COUNT
    /\ report[1].last_hw = hw_timestamps[COUNT - 1]
    /\ report[1].last_hw = HwOf(rxlog[COUNT])

\* C11 witness: a completed run that reports 201 from the last exchange
\* although an earlier, larger value was stored.
C11_Witness ==
  /\ pc = "done"
  /\ hw_timestamps[0] = <<65535, 65535, 65535, 65535>>
  /\ report[1].last_hw = <<201, 0, 0, 0>>

\* C12 (as claimed): when the run ends on a timeout or an undecodable
\* response in iteration k, the failure shown names its kind and the
\* iteration k, and the exit status is not zero.
C12_FailureNamesKindAndIteration ==
  (pc = "aborted" /\ failure \in {"TimeoutError", "struct.error"}) =>
    /\ ExitStatus # 0
    /\ Traceback.type = failure
    /\ "iteration" \in DOMAIN Traceback
    /\ Traceback.iteration = i

\* C13: inside a timed window automatic collection is off, a full collection
\* has run, and both arrays have their final length COUNT; the collection
\* ran only once the arrays were allocated.
C13_WindowIsQuiet ==
  /\ InWindow =>
       /\ ~gcEnabled
       /\ gcCollected
       /\ DOMAIN latencies = 0..(COUNT - 1)
       /\ DOMAIN hw_timestamps = 0..(COUNT - 1)
  /\ gcCollected => pc \notin {"alloc", "socket", "connect", "settimeout"}
  /\ (windows > 0 /\ ~AfterLoop /\ pc # "finally") => ~gcEnabled

\* C13 witness: the second window is open, waiting in recv.
C13_Witness ==
  /\ pc = "recv"
  /\ i = 1
  /\ ~gcEnabled
  /\ gcCollected

\* C14: between capturing T0 and T1 of iteration i there is exactly one send,
\* of the single byte 'T', followed by exactly one receive; the two stores of
\* iteration i happen after T1 and before T0 of iteration i+1.
C14_WindowHoldsSendThenRecv ==
  /\ \A r \in reqs : r.bytes = <<84>>
  /\ pc = "send" => (sent = i /\ Len(rxlog) = i)
  /\ pc = "recv" => (sent = i + 1 /\ Len(rxlog) = i)
  /\ pc = "t1" => (sent = i + 1 /\ Len(rxlog) = i + 1)
  /\ InWindow => (latWritten = 0..(i - 1) /\ HwWritten = 0..(i - 1))
  /\ pc = "t0" => (latWritten = 0..(i - 1) /\ HwWritten = 0..(i - 1))
  /\ pc = "store_lat" => (windows = i + 1 /\ latWritten = 0..(i - 1))
  /\ pc = "store_hw" =>
       (windows = i + 1 /\ latWritten = 0..i /\ HwWritten = 0..(i - 1))

\* C14 witness: T1 of iteration 1 is about to be read, after one send and one
\* receive in this window, with a request still on the wire.
C14_Witness ==
  /\ pc = "t1"
  /\ i = 1
  /\ sent = 2
  /\ Len(rxlog) = 2
  /\ reqs # {}

C16_ArraysFilledTogether ==
  (pc \in {"finally", "aborted"} /\ failure \in LoopFailures) =>
    (latWritten = 0..(i - 1) /\ HwWritten = 0..(i - 1))

\* C17: both arrays keep the length COUNT; every index below the current
\* iteration holds what its exchange produced, every index above it (and the
\* current one at the start of the iteration) still holds the initial zero.
C17_LoopProgress ==
  pc # "alloc" =>
    /\ DOMAIN latencies = 0..(COUNT - 1)
    /\ DOMAIN hw_timestamps = 0..(COUNT - 1)
    /\ \A k \in 0..(COUNT - 1) :
         /\ k < i => /\ k + 1 <= Len(rxlog)
                     /\ latencies[k] = LatencyOf(rxlog[k + 1])
                     /\ hw_timestamps[k] = HwOf(rxlog[k + 1])
                     /\ rxlog[k + 1].sentAt <= rxlog[k + 1].gotAt
         /\ (k > i \/ (k = i /\ pc = "t0")) =>
              (latencies[k] = 0 /\ hw_timestamps[k] = U64Zero)
    /\ \A k \in 1..(Len(rxlog) - 1) : rxlog[k].gotAt <= rxlog[k + 1].sentAt

\* C17 witness: iteration 1 starts with index 0 filled (a non-zero latency
\* and timestamp) and index 1 still zero.
C17_Witness ==
  /\ pc = "t0"
  /\ i = 1
  /\ latencies[0] > 0
  /\ hw_timestamps[0] # U64Zero
  /\ latencies[1] = 0
  /\ hw_timestamps[1] = U64Zero

\* C18: every run reaches a terminal state; it never sends more than COUNT
\* requests, a completed run has sent exactly COUNT, and a run ended by
\* iteration k has sent at most k+1.
C18_Terminates ==
  /\ <>Terminal
  /\ [](/\ sent <= COUNT
        /\ pc = "done" => sent = COUNT
        /\ (pc = "aborted" /\ failure \in LoopFailures) => sent <= i + 1)

\* C18 witness: a run ended by the timeout of its second receive, after two
\* requests.
C18_Witness ==
  /\ Terminal
  /\ failure = "TimeoutError"
  /\ COUNT = 2
  /\ sent = 2
  /\ clock > 0

\* C19: statistics are computed and the report is printed only after all
\* COUNT iterations completed and collection was enabled again; while the
\* aggregator runs every index of both arrays is filled and holds what the
\* loop stored there.
C19_SamplerBeforeAggregator ==
  (InAggregator \/ attempted # {} \/ stats # NoStats \/ report # <<>>) =>
    /\ AfterLoop
    /\ failure \notin LoopFailures
    /\ gcEnabled
    /\ Len(rxlog) = COUNT
    /\ latWritten = 0..(COUNT - 1)
    /\ HwWritten = 0..(COUNT - 1)
    /\ \A k \in 0..(COUNT - 1) :
         /\ latencies[k] = LatencyOf(rxlog[k + 1])
         /\ hw_timestamps[k] = HwOf(rxlog[k + 1])

\* C19 witness: the report of a two-exchange run has been printed, with
\* both arrays filled.
C19_Witness ==
  /\ pc = "done"
  /\ COUNT = 2
  /\ report # <<>>
  /\ latWritten = {0, 1}
  /\ gcEnabled

====
